---- MODULE Spec2Model ----
(***************************************************************************)
(* Model of run_server.py: the booking/invoice store kept in SQLite, the   *)
(* two POST handlers that write to it (process_new_booking and             *)
(* process_cancel_booking), next_invoice_number, and handle_invoice, which *)
(* renders a stored invoice.                                               *)
(*                                                                         *)
(* Text is modelled as sequences of one-character strings so that int(),   *)
(* float(), strip() and the invoice-number formatting are real             *)
(* conversions.  REAL columns are modelled as exact decimal fixed-point    *)
(* numbers with Scale units per pound; every catalog value and every form  *)
(* input of the model has at most two decimals and VAT products are whole  *)
(* multiples of Scale, so every product the code forms is exact.           *)
(***************************************************************************)
EXTENDS Integers, Sequences, FiniteSets, TLC

\* ------------------------------------------------------------------------
\* Bounds of the model
\* ------------------------------------------------------------------------
MaxBookings == 2

MaxDay == 1

MaxLastId == 1100

\* ------------------------------------------------------------------------
\* Program constants
\* ------------------------------------------------------------------------
Scale == 100

PadWidth == 3

NumSlots == 3

DefaultVat == 20

StartDate == [y |-> 2025, m |-> 12, d |-> 31]

Absent == <<"absent">>

NoHandler == "none"

\* ------------------------------------------------------------------------
\* Text helpers
\* ------------------------------------------------------------------------
DigitChars == <<"0", "1", "2", "3", "4", "5", "6", "7", "8", "9">>

IsDigit(c) == \E i \in 1..10 : DigitChars[i] = c

DigitVal(c) == (CHOOSE i \in 1..10 : DigitChars[i] = c) - 1

AllDigits(s) == \A i \in 1..Len(s) : IsDigit(s[i])

RECURSIVE DigitsValue(_)
DigitsValue(s) ==
    IF s = <<>> THEN 0
    ELSE 10 * DigitsValue(SubSeq(s, 1, Len(s) - 1)) + DigitVal(s[Len(s)])

RECURSIVE DigitsOf(_)
DigitsOf(n) ==
    IF n < 10 THEN <<DigitChars[n + 1]>>
    ELSE DigitsOf(n \div 10) \o <<DigitChars[(n % 10) + 1]>>

RECURSIVE ZeroPad(_, _)
ZeroPad(s, w) == IF Len(s) >= w THEN s ELSE ZeroPad(<<"0">> \o s, w)

RECURSIVE Strip(_)
Strip(s) ==
    IF s = <<>> THEN s
    ELSE IF Head(s) = " " THEN Strip(Tail(s))
    ELSE IF s[Len(s)] = " " THEN Strip(SubSeq(s, 1, Len(s) - 1))
    ELSE s

IndexOf(s, c) ==
    IF \E i \in 1..Len(s) : s[i] = c
    THEN CHOOSE i \in 1..Len(s) : s[i] = c /\ \A j \in 1..(i - 1) : s[j] # c
    ELSE 0

\* int(str): an optional sign followed by at least one digit; anything else
\* raises ValueError (ok = FALSE).
ParseInt(s) ==
    LET neg  == s # <<>> /\ Head(s) = "-"
        sgn  == s # <<>> /\ Head(s) \in {"-", "+"}
        body == IF sgn THEN Tail(s) ELSE s
    IN  IF body # <<>> /\ AllDigits(body)
        THEN [ok |-> TRUE,
              val |-> IF neg THEN 0 - DigitsValue(body) ELSE DigitsValue(body)]
        ELSE [ok |-> FALSE, val |-> 0]

\* float(str) for plain decimal text with at most two decimals: the value in
\* units of 1/Scale; anything else raises ValueError (ok = FALSE).
ParseFloat(s) ==
    LET neg   == s # <<>> /\ Head(s) = "-"
        sgn   == s # <<>> /\ Head(s) \in {"-", "+"}
        body  == IF sgn THEN Tail(s) ELSE s
        dot   == IndexOf(body, ".")
        ipart == IF dot = 0 THEN body ELSE SubSeq(body, 1, dot - 1)
        fpart == IF dot = 0 THEN <<>> ELSE SubSeq(body, dot + 1, Len(body))
        fpad  == IF Len(fpart) = 0 THEN <<"0", "0">>
                 ELSE IF Len(fpart) = 1 THEN fpart \o <<"0">>
                 ELSE fpart
        mag   == Scale * DigitsValue(ipart) + DigitsValue(fpad)
    IN  IF /\ Len(ipart) + Len(fpart) > 0
           /\ AllDigits(ipart)
           /\ AllDigits(fpart)
           /\ Len(fpart) <= 2
        THEN [ok |-> TRUE, val |-> IF neg THEN 0 - mag ELSE mag]
        ELSE [ok |-> FALSE, val |-> 0]

\* ------------------------------------------------------------------------
\* Calendar: datetime.date.today() and strftime('%Y%m%d')
\* ------------------------------------------------------------------------
IsLeap(y) == (y % 4 = 0 /\ y % 100 # 0) \/ y % 400 = 0

DaysInMonth(y, m) ==
    IF m = 2 THEN (IF IsLeap(y) THEN 29 ELSE 28)
    ELSE IF m \in {4, 6, 9, 11} THEN 30
    ELSE 31

NextDay(dt) ==
    IF dt.d < DaysInMonth(dt.y, dt.m) THEN [dt EXCEPT !.d = dt.d + 1]
    ELSE IF dt.m < 12 THEN [y |-> dt.y, m |-> dt.m + 1, d |-> 1]
    ELSE [y |-> dt.y + 1, m |-> 1, d |-> 1]

RECURSIVE AddDays(_, _)
AddDays(dt, n) == IF n = 0 THEN dt ELSE AddDays(NextDay(dt), n - 1)

DateOf(n) == AddDays(StartDate, n)

StrfYmd(dt) ==
    ZeroPad(DigitsOf(dt.y), 4) \o ZeroPad(DigitsOf(dt.m), 2) \o ZeroPad(DigitsOf(dt.d), 2)

\* ------------------------------------------------------------------------
\* The store: the tables init_db creates, each a sequence of rows in
\* insertion order.  Free-text columns that no operation reads back
\* (customer names, phone, vrm, notes, descriptions) are left out.
\* ------------------------------------------------------------------------
VARIABLES db, today, last, hs, lock, fmt

vars == <<db, today, last, hs, lock, fmt>>

\* The five services init_db seeds (unit_price in 1/Scale pounds, vat_rate
\* in 1/Scale).
SeedServices ==
    <<[id |-> 1, name |-> <<"F", "u", "l", "l", " ", "S", "e", "r", "v", "i", "c", "e">>,
        unit_price |-> 20000, vat_rate |-> 20],
       [id |-> 2, name |-> <<"I", "n", "t", "e", "r", "i", "m", " ", "S", "e", "r", "v", "i", "c", "e">>,
        unit_price |-> 12000, vat_rate |-> 20],
       [id |-> 3, name |-> <<"M", "O", "T", " ", "T", "e", "s", "t">>,
        unit_price |-> 5485, vat_rate |-> 0],
       [id |-> 4, name |-> <<"B", "r", "a", "k", "e", " ", "P", "a", "d", "s", " ", "R", "e", "p", "l", "a", "c", "e", "m", "e", "n", "t">>,
        unit_price |-> 15000, vat_rate |-> 20],
       [id |-> 5, name |-> <<"D", "i", "a", "g", "n", "o", "s", "t", "i", "c", "s">>,
        unit_price |-> 6000, vat_rate |-> 20]>>

EmptyDb ==
    [customers |-> <<>>, vehicles |-> <<>>, services |-> SeedServices,
     bookings |-> <<>>, booking_items |-> <<>>, misc_items |-> <<>>,
     invoices |-> <<>>]

\* INTEGER PRIMARY KEY AUTOINCREMENT: one more than the largest id ever used;
\* no row is ever deleted, so this is the last row's id plus one.
NextRowId(table) == IF table = <<>> THEN 1 ELSE table[Len(table)].id + 1

RowSet(table) == {table[i] : i \in 1..Len(table)}

\* ------------------------------------------------------------------------
\* next_invoice_number
\* ------------------------------------------------------------------------
\* Variant: the newest id is used as it is.
NextId_NoIncrement(invoices) ==
    IF invoices = <<>> THEN 1
    ELSE (CHOOSE r \in RowSet(invoices) : \A q \in RowSet(invoices) : q.id <= r.id).id

\* SELECT id FROM invoices ORDER BY id DESC LIMIT 1, then row[0] + 1 or 1.
NextId(invoices) ==
    IF invoices = <<>> THEN 1
    ELSE (CHOOSE r \in RowSet(invoices) : \A q \in RowSet(invoices) : q.id <= r.id).id + 1

\* Variant: the sequence part is not padded.
FormatInvoiceNumber_Unpadded(dt, next_id) ==
    <<"I", "N", "V">> \o StrfYmd(dt) \o <<"-">> \o DigitsOf(next_id)

\* f"INV{date_str}-{next_id:03d}"
FormatInvoiceNumber(dt, next_id) ==
    <<"I", "N", "V">> \o StrfYmd(dt) \o <<"-">> \o ZeroPad(DigitsOf(next_id), PadWidth)

\* The separate connection of next_invoice_number sees the committed store.
NextInvoiceNumber(committed, day) ==
    FormatInvoiceNumber(DateOf(day), NextId(committed.invoices))

\* ------------------------------------------------------------------------
\* The POST /booking/new form: qty_{service_id} per catalog entry and
\* custom_name_i, custom_qty_i, custom_price_i, custom_vat_i for i in 1..3.
\* A field is a text or Absent (parse_qs drops missing and blank fields).
\* ------------------------------------------------------------------------
FieldGet(v, default) == IF v = Absent THEN default ELSE v

NoCustom == [name |-> Absent, qty |-> Absent, price |-> Absent, vat |-> Absent]

\* custom_vat left blank: the default rate applies.
TowFee ==
    [name |-> <<"T", "o", "w", " ", "f", "e", "e">>, qty |-> <<"1">>,
     price |-> <<"5", "0">>, vat |-> Absent]

\* A name to strip, a price with decimals and a rate of its own.
Kit ==
    [name |-> <<" ", "K", "i", "t">>, qty |-> <<"2">>,
     price |-> <<"1", "2", ".", "5", "0">>, vat |-> <<"0", ".", "0", "5">>]

\* Valid numbers under a name of blanks.
BlankName ==
    [name |-> <<" ">>, qty |-> <<"1">>, price |-> <<"5", "0">>, vat |-> Absent]

\* A name with a negative quantity and text that float() rejects.
BadNumbers ==
    [name |-> <<"P", "a", "d">>, qty |-> <<"-", "1">>, price |-> <<"a", "b", "c">>,
     vat |-> <<"x">>]

\* A name and a quantity but a price of zero.
ZeroPrice ==
    [name |-> <<"P", "a", "d">>, qty |-> <<"1">>, price |-> <<"0">>, vat |-> <<"0", ".", "2">>]

ServiceIds == {SeedServices[i].id : i \in 1..Len(SeedServices)}

Slots == 1..NumSlots

\* The form with the given qty_ fields and custom slots and no other field.
Form(q, c) ==
    [qty |-> [i \in ServiceIds |-> IF i \in DOMAIN q THEN q[i] ELSE Absent],
     custom |-> [i \in Slots |-> IF i \in DOMAIN c THEN c[i] ELSE NoCustom]]

\* The submissions of the model: nothing selected; each kind of catalog and
\* custom line alone and combined; fields that do not parse or do not qualify.
Forms ==
    { Form(<<>>, <<>>),
      Form(<<<<"2">>>>, <<>>),
      Form((3 :> <<"2">>), <<>>),
      Form((2 :> <<"1">>) @@ (5 :> <<"2">>), (2 :> TowFee)),
      Form(<<>>, <<TowFee>>),
      Form((4 :> <<"2">>), (3 :> Kit)),
      Form((1 :> <<"x">>) @@ (2 :> <<"-", "1">>) @@ (3 :> <<"0">>),
           <<BlankName, BadNumbers, ZeroPrice>>) }

QtyField(form, svc_id) ==
    IF svc_id \in DOMAIN form.qty THEN form.qty[svc_id] ELSE Absent

\* qty_str = fields.get(qty_key, ['0'])[0]; int(qty_str), 0 on ValueError
CatalogQty(form, svc_id) ==
    LET p == ParseInt(FieldGet(QtyField(form, svc_id), <<"0">>))
    IN  IF p.ok THEN p.val ELSE 0

CustomName(c) == Strip(FieldGet(c.name, <<>>))

CustomQty(c) ==
    LET p == ParseInt(FieldGet(c.qty, <<"0">>))
    IN  IF p.ok THEN p.val ELSE 0

CustomPrice(c) ==
    LET p == ParseFloat(FieldGet(c.price, <<>>))
    IN  IF p.ok THEN p.val ELSE 0

CustomVat(c) ==
    LET p == ParseFloat(FieldGet(c.vat, <<>>))
    IN  IF p.ok THEN p.val ELSE DefaultVat

\* ------------------------------------------------------------------------
\* process_new_booking: the writes of one submission on its connection
\* ------------------------------------------------------------------------
\* Variant: the quantity is left out of the line total.
LineTotal_NoQuantity(qty, unit_price) == unit_price

LineTotal(qty, unit_price) == qty * unit_price

LineVat(line_total, vat_rate) == (line_total * vat_rate) \div Scale

\* Variant: a customer row already in the table is used again.
InsertCustomer_Reuse(t) ==
    IF t.customers = <<>>
    THEN [t EXCEPT !.customers = Append(@, [id |-> NextRowId(@)])]
    ELSE t

InsertCustomer(t) ==
    [t EXCEPT !.customers = Append(@, [id |-> NextRowId(@)])]

InsertVehicle(t, customer_id) ==
    [t EXCEPT !.vehicles = Append(@, [id |-> NextRowId(@), customer_id |-> customer_id])]

InsertBooking(t, customer_id, vehicle_id, booking_date) ==
    [t EXCEPT !.bookings =
        Append(@, [id |-> NextRowId(@), customer_id |-> customer_id,
                   vehicle_id |-> vehicle_id, booking_date |-> booking_date,
                   status |-> "booked"])]

\* Variant: the row takes the list price the service was seeded with.
InsertBookingItem_SeedPrice(t, booking_id, svc, qty) ==
    [t EXCEPT !.booking_items =
        Append(@, [id |-> NextRowId(@), booking_id |-> booking_id,
                   service_id |-> svc.id, quantity |-> qty,
                   unit_price |-> SeedServices[svc.id].unit_price,
                   vat_rate |-> SeedServices[svc.id].vat_rate])]

\* INSERT INTO booking_items(..., unit_price, vat_rate) with the values just
\* read from the services row.
InsertBookingItem(t, booking_id, svc, qty) ==
    [t EXCEPT !.booking_items =
        Append(@, [id |-> NextRowId(@), booking_id |-> booking_id,
                   service_id |-> svc.id, quantity |-> qty,
                   unit_price |-> svc.unit_price, vat_rate |-> svc.vat_rate])]

InsertMiscItem(t, booking_id, name, qty, price, vat) ==
    [t EXCEPT !.misc_items =
        Append(@, [id |-> NextRowId(@), booking_id |-> booking_id, name |-> name,
                   quantity |-> qty, unit_price |-> price, vat_rate |-> vat])]

InsertInvoice(t, booking_id, invoice_number, issue_date, total_ex_vat, total_vat) ==
    [t EXCEPT !.invoices =
        Append(@, [id |-> NextRowId(@), booking_id |-> booking_id,
                   invoice_number |-> invoice_number, issue_date |-> issue_date,
                   total_ex_vat |-> total_ex_vat, total_vat |-> total_vat,
                   total_inc |-> total_ex_vat + total_vat, status |-> "unpaid"])]

\* The loop over SELECT id, unit_price, vat_rate FROM services, from row k on.
\* acc = [t, total_ex_vat, total_vat].
RECURSIVE CatalogLoop(_, _, _, _, _)
CatalogLoop(acc, svcs, form, booking_id, k) ==
    IF k > Len(svcs) THEN acc
    ELSE LET svc        == svcs[k]
             qty        == CatalogQty(form, svc.id)
             line_total == LineTotal(qty, svc.unit_price)
             line_vat   == LineVat(line_total, svc.vat_rate)
             nxt == IF qty > 0
                    THEN [t |-> InsertBookingItem(acc.t, booking_id, svc, qty),
                          total_ex_vat |-> acc.total_ex_vat + line_total,
                          total_vat |-> acc.total_vat + line_vat]
                    ELSE acc
         IN  CatalogLoop(nxt, svcs, form, booking_id, k + 1)

\* for i in range(1, 4): the custom items, from slot i on.
RECURSIVE MiscLoop(_, _, _, _)
MiscLoop(acc, form, booking_id, i) ==
    IF i > NumSlots THEN acc
    ELSE LET c           == form.custom[i]
             name_val    == CustomName(c)
             qty_int     == CustomQty(c)
             price_float == CustomPrice(c)
             vat_float   == CustomVat(c)
             line_total  == LineTotal(qty_int, price_float)
             line_vat    == LineVat(line_total, vat_float)
             nxt == IF name_val # <<>> /\ qty_int > 0 /\ price_float > 0
                    THEN [t |-> InsertMiscItem(acc.t, booking_id, name_val, qty_int,
                                               price_float, vat_float),
                          total_ex_vat |-> acc.total_ex_vat + line_total,
                          total_vat |-> acc.total_vat + line_vat]
                    ELSE acc
         IN  MiscLoop(nxt, form, booking_id, i + 1)

\* Variants: an invoice for every booking; the guard reads the VAT total.
InvoiceDue_Always(total_ex_vat, total_vat) == total_ex_vat >= 0

InvoiceDue_OnVat(total_ex_vat, total_vat) == total_vat > 0

\* if total_ex_vat > 0, with both accumulated totals in scope
InvoiceDue(total_ex_vat, total_vat) == total_ex_vat > 0

LastId(table) == table[Len(table)].id

\* The writes of one submission in program order, on a connection whose
\* transaction starts from the committed store: the connection's view before
\* each kind of write, the totals accumulated by the two loops, and the kinds
\* of INSERT the submission executes.
Submission(committed, day, form) ==
    LET t1          == InsertCustomer(committed)
        customer_id == LastId(t1.customers)
        t2          == InsertVehicle(t1, customer_id)
        vehicle_id  == LastId(t2.vehicles)
        t3          == InsertBooking(t2, customer_id, vehicle_id, DateOf(day))
        booking_id  == LastId(t3.bookings)
        a4          == CatalogLoop([t |-> t3, total_ex_vat |-> 0, total_vat |-> 0],
                                   t3.services, form, booking_id, 1)
        a5          == MiscLoop(a4, form, booking_id, 1)
    IN  [booking_id |-> booking_id,
         before |-> [customer |-> committed, vehicle |-> t1, booking |-> t2,
                     items |-> t3, misc |-> a4.t, invoice |-> a5.t],
         t |-> a5.t,
         total_ex_vat |-> a5.total_ex_vat,
         total_vat |-> a5.total_vat,
         performs |-> {"customer", "vehicle", "booking"}
                        \cup (IF a4.t # t3 THEN {"items"} ELSE {})
                        \cup (IF a5.t # a4.t THEN {"misc"} ELSE {})
                        \cup (IF InvoiceDue(a5.total_ex_vat, a5.total_vat)
                              THEN {"invoice"} ELSE {})]

\* invoice_number = next_invoice_number(); INSERT INTO invoices
WithInvoice(sub, invoice_number, day) ==
    InsertInvoice(sub.t, sub.booking_id, invoice_number, DateOf(day),
                  sub.total_ex_vat, sub.total_vat)

\* Variant: every statement is committed as it is executed.
EndTransaction_Autocommit(committed, view, raised) == view

\* conn.commit() is reached only when no statement raised; otherwise the
\* exception leaves process_new_booking, the connection is dropped with its
\* transaction open and SQLite rolls the transaction back.
EndTransaction(committed, view, raised) == IF raised THEN committed ELSE view

\* Facts about the request, for the record of the last request.
SubmittedPositive(form) ==
    Cardinality({i \in ServiceIds : CatalogQty(form, i) > 0})

ValidCustom(form) ==
    Cardinality({i \in Slots : /\ CustomName(form.custom[i]) # <<>>
                               /\ CustomQty(form.custom[i]) > 0
                               /\ CustomPrice(form.custom[i]) > 0})

NoRequest ==
    [op |-> "none", status |-> 0, path |-> "", loc_id |-> 0, booking_id |-> 0,
     sel |-> 0, cust |-> 0, failed |-> "no", was_canceled |-> FALSE]

\* Variant: the redirect names the booking instead of the invoice.
NewBookingResponse_ToBooking(view, created, booking_id, sel, cust) ==
    [NoRequest EXCEPT
        !.op = "new", !.status = 303,
        !.path = IF created THEN "/invoice/" ELSE "/",
        !.loc_id = IF created THEN booking_id ELSE 0,
        !.booking_id = booking_id,
        !.sel = sel, !.cust = cust]

\* invoice_id = cur.lastrowid or None; 303 to /invoice/{id} or to /
NewBookingResponse(view, created, booking_id, sel, cust) ==
    [NoRequest EXCEPT
        !.op = "new", !.status = 303,
        !.path = IF created THEN "/invoice/" ELSE "/",
        !.loc_id = IF created THEN LastId(view.invoices) ELSE 0,
        !.booking_id = booking_id,
        !.sel = sel, !.cust = cust]

\* An exception escapes the handler: no response is written.  The record
\* keeps whether the booking row had been written when the statement raised.
NewBookingError(at) ==
    [NoRequest EXCEPT
        !.op = "new",
        !.failed = IF at \in {"customer", "vehicle", "booking"}
                   THEN "before_booking" ELSE "after_booking"]

\* ------------------------------------------------------------------------
\* process_cancel_booking
\* ------------------------------------------------------------------------
\* Variants of the two UPDATEs: the invoice is matched on its own id; the
\* booking status is flipped; the invoice total is negated as a credit.
CancelStore_ByInvoiceId(t, booking_id) ==
    [t EXCEPT
        !.bookings = [i \in 1..Len(@) |->
            IF @[i].id = booking_id THEN [@[i] EXCEPT !.status = "canceled"] ELSE @[i]],
        !.invoices = [i \in 1..Len(@) |->
            IF @[i].id = booking_id THEN [@[i] EXCEPT !.status = "canceled"] ELSE @[i]]]

CancelStore_Toggle(t, booking_id) ==
    [t EXCEPT !.bookings =
        [i \in 1..Len(@) |->
            IF @[i].id = booking_id
            THEN [@[i] EXCEPT !.status = IF @ = "canceled" THEN "booked" ELSE "canceled"]
            ELSE @[i]]]

CancelStore_Credit(t, booking_id) ==
    [t EXCEPT
        !.bookings = [i \in 1..Len(@) |->
            IF @[i].id = booking_id THEN [@[i] EXCEPT !.status = "canceled"] ELSE @[i]],
        !.invoices = [i \in 1..Len(@) |->
            IF @[i].booking_id = booking_id
            THEN [@[i] EXCEPT !.status = "canceled", !.total_inc = 0 - @]
            ELSE @[i]]]

\* Variant: only the booking is updated.
CancelStore_BookingOnly(t, booking_id) ==
    [t EXCEPT
        !.bookings = [i \in 1..Len(@) |->
            IF @[i].id = booking_id THEN [@[i] EXCEPT !.status = "canceled"] ELSE @[i]]]

\* UPDATE bookings SET status = 'canceled' WHERE id = ?
\* UPDATE invoices SET status = 'canceled' WHERE booking_id = ?
CancelStore(t, booking_id) ==
    [t EXCEPT
        !.bookings = [i \in 1..Len(@) |->
            IF @[i].id = booking_id THEN [@[i] EXCEPT !.status = "canceled"] ELSE @[i]],
        !.invoices = [i \in 1..Len(@) |->
            IF @[i].booking_id = booking_id
            THEN [@[i] EXCEPT !.status = "canceled"] ELSE @[i]]]

CancelInputs == {DigitsOf(i) : i \in 1..MaxBookings} \cup {<<"x">>}

\* ------------------------------------------------------------------------
\* Handlers of concurrent submissions (a threaded or multi-process
\* deployment on the same database file)
\* ------------------------------------------------------------------------
Handlers == {"h1", "h2"}

IdleHandler ==
    [pc |-> "idle", base |-> <<>>, t |-> <<>>, total_ex_vat |-> 0, total_vat |-> 0,
     booking_id |-> 0, number |-> <<>>, sel |-> 0, cust |-> 0]

NoFmt == [last_id |-> 0, day |-> 0, number |-> <<>>]

Init ==
    /\ db = EmptyDb
    /\ today = 0
    /\ last = NoRequest
    /\ hs = [h \in Handlers |-> IdleHandler]
    /\ lock = NoHandler
    /\ fmt = NoFmt

\* ------------------------------------------------------------------------
\* The server as written: HTTPServer handles one request at a time, so each
\* handler runs from its first statement to its last without interleaving.
\* ------------------------------------------------------------------------
ProcessNewBooking(form) ==
    /\ Len(db.bookings) < MaxBookings
    /\ lock = NoHandler
    /\ \E sub \in {Submission(db, today, form)} :
           \E at \in {"none"} \cup sub.performs :
             LET raised  == at # "none"
                 created == InvoiceDue(sub.total_ex_vat, sub.total_vat)
                 view    == IF raised THEN sub.before[at]
                            ELSE IF created
                            THEN WithInvoice(sub, NextInvoiceNumber(db, today), today)
                            ELSE sub.t
             IN  /\ db' = EndTransaction(db, view, raised)
                 /\ last' = IF raised THEN NewBookingError(at)
                            ELSE NewBookingResponse(view, created, sub.booking_id,
                                                    SubmittedPositive(form),
                                                    ValidCustom(form))
    /\ UNCHANGED <<today, hs, lock, fmt>>

ProcessCancelBooking(booking_id_str) ==
    /\ lock = NoHandler
    /\ LET p == ParseInt(booking_id_str)
       IN  IF ~p.ok
           THEN /\ db' = db
                /\ last' = [NoRequest EXCEPT !.op = "cancel", !.status = 400]
           ELSE /\ db' = CancelStore(db, p.val)
                /\ last' = [NoRequest EXCEPT
                               !.op = "cancel", !.status = 303, !.path = "/bookings",
                               !.booking_id = p.val,
                               !.was_canceled =
                                   \E b \in RowSet(db.bookings) :
                                       b.id = p.val /\ b.status = "canceled"]
    /\ UNCHANGED <<today, hs, lock, fmt>>

\* datetime.date.today() moves on.
Tick ==
    /\ today < MaxDay
    /\ today' = today + 1
    /\ UNCHANGED <<db, last, hs, lock, fmt>>

Next ==
    \/ \E form \in Forms : ProcessNewBooking(form)
    \/ \E s \in CancelInputs : ProcessCancelBooking(s)
    \/ Tick

Spec == Init /\ [][Next]_vars

\* ------------------------------------------------------------------------
\* Concurrent submissions, statement by statement.  sqlite3.connect() opens
\* a connection with a deferred transaction; the first INSERT of a handler
\* takes the database's write lock, which SQLite grants to one connection at
\* a time and which is held until commit or rollback.  A handler that finds
\* the lock taken gets "database is locked" after the busy timeout.
\* ------------------------------------------------------------------------
\* Variant: writers do not exclude each other.
CanBeginWrite_NoLock(h) == TRUE

CanBeginWrite(h) == lock = NoHandler

InFlight == {h \in Handlers : hs[h].pc # "idle"}

TableLens(t) == [tbl \in DOMAIN t |-> Len(t[tbl])]

\* conn.commit(): the rows written on the connection become the committed
\* store's newest rows.
Merge(committed, base, t) ==
    [tbl \in DOMAIN committed |->
        committed[tbl] \o SubSeq(t[tbl], base[tbl] + 1, Len(t[tbl]))]

\* do_POST dispatches a /booking/new request to a handler.
Receive(h) ==
    /\ hs[h].pc = "idle"
    /\ Len(db.bookings) + Cardinality(InFlight) < MaxBookings
    /\ hs' = [hs EXCEPT ![h].pc = "begin"]
    /\ UNCHANGED <<db, today, last, lock, fmt>>

\* The INSERTs into customers, vehicles, bookings, booking_items and
\* misc_items: private to the connection until it commits.
BeginWrite(h, form) ==
    /\ hs[h].pc = "begin"
    /\ CanBeginWrite(h)
    /\ \E sub \in {Submission(db, today, form)} :
          hs' = [hs EXCEPT ![h] =
                    [pc |-> IF InvoiceDue(sub.total_ex_vat, sub.total_vat)
                            THEN "number" ELSE "commit",
                     base |-> TableLens(db), t |-> sub.t,
                     total_ex_vat |-> sub.total_ex_vat, total_vat |-> sub.total_vat,
                     booking_id |-> sub.booking_id, number |-> <<>>,
                     sel |-> SubmittedPositive(form), cust |-> ValidCustom(form)]]
    /\ lock' = h
    /\ UNCHANGED <<db, today, last, fmt>>

\* sqlite3.OperationalError: database is locked.
Busy(h) ==
    /\ hs[h].pc = "begin"
    /\ ~CanBeginWrite(h)
    /\ hs' = [hs EXCEPT ![h] = IdleHandler]
    /\ last' = NewBookingError("customer")
    /\ UNCHANGED <<db, today, lock, fmt>>

\* invoice_number = next_invoice_number()
ComputeNumber(h) ==
    /\ hs[h].pc = "number"
    /\ hs' = [hs EXCEPT ![h].number = NextInvoiceNumber(db, today), ![h].pc = "invoice"]
    /\ UNCHANGED <<db, today, last, lock, fmt>>

\* INSERT INTO invoices
InsertInvoiceRow(h) ==
    /\ hs[h].pc = "invoice"
    /\ hs' = [hs EXCEPT ![h].t = WithInvoice(hs[h], hs[h].number, today),
                        ![h].pc = "commit"]
    /\ UNCHANGED <<db, today, last, lock, fmt>>

\* conn.commit(); conn.close(); the redirect
Commit(h) ==
    /\ hs[h].pc = "commit"
    /\ db' = Merge(db, hs[h].base, hs[h].t)
    /\ lock' = NoHandler
    /\ last' = NewBookingResponse(hs[h].t, hs[h].number # <<>>, hs[h].booking_id,
                                  hs[h].sel, hs[h].cust)
    /\ hs' = [hs EXCEPT ![h] = IdleHandler]
    /\ UNCHANGED <<today, fmt>>

\* A statement raises after the first INSERT: the transaction is rolled back.
Raise(h) ==
    /\ hs[h].pc \in {"number", "invoice", "commit"}
    /\ lock' = NoHandler
    /\ last' = NewBookingError("invoice")
    /\ hs' = [hs EXCEPT ![h] = IdleHandler]
    /\ UNCHANGED <<db, today, fmt>>

NextConc ==
    \/ \E h \in Handlers : Receive(h)
    \/ \E h \in Handlers, form \in Forms : BeginWrite(h, form)
    \/ \E h \in Handlers : Busy(h)
    \/ \E h \in Handlers : ComputeNumber(h)
    \/ \E h \in Handlers : InsertInvoiceRow(h)
    \/ \E h \in Handlers : Commit(h)
    \/ \E h \in Handlers : Raise(h)
    \/ Tick

SpecConc == Init /\ [][NextConc]_vars

\* ------------------------------------------------------------------------
\* next_invoice_number as a function of the newest invoice id (0: the table
\* is empty) and of the date.
\* ------------------------------------------------------------------------
InvoicesUpTo(last_id) ==
    [invoices |-> IF last_id = 0 THEN <<>> ELSE <<[id |-> last_id]>>]

InitFmt ==
    /\ db = EmptyDb
    /\ today = 0
    /\ last = NoRequest
    /\ hs = [h \in Handlers |-> IdleHandler]
    /\ lock = NoHandler
    /\ fmt \in [last_id : 0..MaxLastId, day : 0..MaxDay, number : {<<>>}]

CallNextInvoiceNumber ==
    /\ fmt.number = <<>>
    /\ fmt' = [fmt EXCEPT !.number = NextInvoiceNumber(InvoicesUpTo(fmt.last_id), fmt.day)]
    /\ UNCHANGED <<db, today, last, hs, lock>>

NextFmt == CallNextInvoiceNumber

SpecFmt == InitFmt /\ [][NextFmt]_vars

\* ------------------------------------------------------------------------
\* handle_invoice: GET /invoice/{id}
\* ------------------------------------------------------------------------
PaymentTermsDays == 14

DaysPerMonth == 30

InterimMonths == 6

DefaultMonths == 12

\* datetime.date.isoformat() and strftime('%Y-%m-%d')
IsoFormat(dt) ==
    ZeroPad(DigitsOf(dt.y), 4) \o <<"-">> \o ZeroPad(DigitsOf(dt.m), 2)
        \o <<"-">> \o ZeroPad(DigitsOf(dt.d), 2)

\* datetime.datetime.strptime(text, '%Y-%m-%d'): a four-digit year, then a
\* month and a day of one or two digits that name a day of the calendar;
\* anything else raises ValueError (ok = FALSE).
Strptime(s) ==
    LET d1   == IndexOf(s, "-")
        rest == IF d1 = 0 THEN <<>> ELSE SubSeq(s, d1 + 1, Len(s))
        d2   == IndexOf(rest, "-")
        ys   == IF d1 = 0 THEN <<>> ELSE SubSeq(s, 1, d1 - 1)
        ms   == IF d2 = 0 THEN <<>> ELSE SubSeq(rest, 1, d2 - 1)
        ds   == IF d2 = 0 THEN <<>> ELSE SubSeq(rest, d2 + 1, Len(rest))
        y    == DigitsValue(ys)
        m    == DigitsValue(ms)
        d    == DigitsValue(ds)
    IN  IF /\ Len(ys) = 4 /\ Len(ms) \in {1, 2} /\ Len(ds) \in {1, 2}
           /\ AllDigits(ys) /\ AllDigits(ms) /\ AllDigits(ds)
           /\ y >= 1 /\ m \in 1..12 /\ d >= 1 /\ d <= DaysInMonth(y, m)
        THEN [ok |-> TRUE, val |-> [y |-> y, m |-> m, d |-> d]]
        ELSE [ok |-> FALSE, val |-> StartDate]

UpperChars ==
    <<"A", "B", "C", "D", "E", "F", "G", "H", "I", "J", "K", "L", "M",
      "N", "O", "P", "Q", "R", "S", "T", "U", "V", "W", "X", "Y", "Z">>

LowerChars ==
    <<"a", "b", "c", "d", "e", "f", "g", "h", "i", "j", "k", "l", "m",
      "n", "o", "p", "q", "r", "s", "t", "u", "v", "w", "x", "y", "z">>

\* str.lower()
Lower(s) ==
    [i \in 1..Len(s) |->
        IF \E k \in 1..26 : UpperChars[k] = s[i]
        THEN LowerChars[CHOOSE k \in 1..26 : UpperChars[k] = s[i]]
        ELSE s[i]]

\* sub in s
Contains(s, sub) ==
    \E i \in 1..(Len(s) - Len(sub) + 1) : SubSeq(s, i, i + Len(sub) - 1) = sub

InterimText == <<"i", "n", "t", "e", "r", "i", "m">>

\* SELECT s.name, s.description, bi.quantity, bi.unit_price, bi.vat_rate
\* FROM booking_items bi JOIN services s ON bi.service_id = s.id
\* WHERE bi.booking_id = ?, followed by the misc_items of the booking.
InvoiceItems(d, booking_id) ==
    LET bis  == SelectSeq(d.booking_items,
                    LAMBDA r : /\ r.booking_id = booking_id
                               /\ \E s \in RowSet(d.services) : s.id = r.service_id)
        mis  == SelectSeq(d.misc_items, LAMBDA r : r.booking_id = booking_id)
        Svc(id) == CHOOSE s \in RowSet(d.services) : s.id = id
    IN  [i \in 1..Len(bis) |->
            [name |-> Svc(bis[i].service_id).name, quantity |-> bis[i].quantity,
             unit_price |-> bis[i].unit_price, vat_rate |-> bis[i].vat_rate]]
        \o [i \in 1..Len(mis) |->
            [name |-> mis[i].name, quantity |-> mis[i].quantity,
             unit_price |-> mis[i].unit_price, vat_rate |-> mis[i].vat_rate]]

\* The table rows of the page: name, qty, unit price, line_total_ex, line_vat
\* and line_total_inc of every item.
ItemRows(items) ==
    [i \in 1..Len(items) |->
        LET line_total_ex == items[i].quantity * items[i].unit_price
            line_vat      == (line_total_ex * items[i].vat_rate) \div Scale
        IN  [name |-> items[i].name, quantity |-> items[i].quantity,
             unit_price |-> items[i].unit_price, line_total_ex |-> line_total_ex,
             line_vat |-> line_vat, line_total_inc |-> line_total_ex + line_vat]]

\* Variant: the name is searched as it is spelled.
ServiceIntervalMonths_CaseSensitive(service_names) ==
    IF \E i \in 1..Len(service_names) : Contains(service_names[i], InterimText)
    THEN InterimMonths ELSE DefaultMonths

\* months = 12; for name in service_names: if 'interim' in name.lower(): months = 6
ServiceIntervalMonths(service_names) ==
    IF \E i \in 1..Len(service_names) : Contains(Lower(service_names[i]), InterimText)
    THEN InterimMonths ELSE DefaultMonths

\* dt + datetime.timedelta(days=n), a month at a time.
RECURSIVE Timedelta(_, _)
Timedelta(dt, n) ==
    IF dt.d + n <= DaysInMonth(dt.y, dt.m) THEN [dt EXCEPT !.d = dt.d + n]
    ELSE Timedelta(IF dt.m < 12 THEN [y |-> dt.y, m |-> dt.m + 1, d |-> 1]
                   ELSE [y |-> dt.y + 1, m |-> 1, d |-> 1],
                   n - (DaysInMonth(dt.y, dt.m) - dt.d + 1))

\* issue_dt + datetime.timedelta(days=n), formatted with '%Y-%m-%d'
DatePlus(issue_date, n) == IsoFormat(Timedelta(Strptime(issue_date).val, n))

NotFound == [op |-> "invoice", status |-> 404]

\* The values handle_invoice passes to the template for the invoice row inv.
InvoicePage(d, inv) ==
    LET items         == InvoiceItems(d, inv.booking_id)
        service_names == [i \in 1..Len(items) |-> items[i].name]
        issue_date    == IsoFormat(inv.issue_date)
        months        == ServiceIntervalMonths(service_names)
    IN  [op |-> "invoice", status |-> 200, invoice_id |-> inv.id,
         invoice_number |-> inv.invoice_number,
         issue_date |-> issue_date,
         due_date |-> DatePlus(issue_date, PaymentTermsDays),
         next_service_date |-> DatePlus(issue_date, DaysPerMonth * months),
         items_rows |-> ItemRows(items),
         total_ex |-> inv.total_ex_vat, total_vat |-> inv.total_vat,
         total_inc |-> inv.total_inc]

\* The last path segment of GET /invoice/...
InvoicePaths == {DigitsOf(i) : i \in 1..MaxBookings} \cup {<<"x">>}

\* do_GET: int() of the last path segment, 404 on ValueError; handle_invoice:
\* 404 when no invoice has the id, the page otherwise.  The store is only read.
HandleInvoice(id_str) ==
    /\ lock = NoHandler
    /\ LET p == ParseInt(id_str)
       IN  IF p.ok /\ \E inv \in RowSet(db.invoices) : inv.id = p.val
           THEN last' = InvoicePage(db, CHOOSE inv \in RowSet(db.invoices) : inv.id = p.val)
           ELSE last' = NotFound
    /\ UNCHANGED <<db, today, hs, lock, fmt>>

\* ------------------------------------------------------------------------
\* The catalog under maintenance: the rows of the services table are edited
\* in the database file while the server runs; init_db seeds the table only
\* when it is empty, so an edited catalog stays.
\* ------------------------------------------------------------------------
CatalogTerms ==
    { [id |-> 2, unit_price |-> 13000, vat_rate |-> 20],
      [id |-> 2, unit_price |-> 12000, vat_rate |-> 0],
      [id |-> 1, unit_price |-> 25000, vat_rate |-> 20] }

UpdateService(terms) ==
    /\ lock = NoHandler
    /\ \E s \in RowSet(db.services) :
           /\ s.id = terms.id
           /\ <<s.unit_price, s.vat_rate>> # <<terms.unit_price, terms.vat_rate>>
    /\ db' = [db EXCEPT !.services =
                [i \in 1..Len(@) |->
                    IF @[i].id = terms.id
                    THEN [@[i] EXCEPT !.unit_price = terms.unit_price,
                                      !.vat_rate = terms.vat_rate]
                    ELSE @[i]]]
    /\ UNCHANGED <<today, last, hs, lock, fmt>>

\* Submissions that select the services whose terms change, and one that
\* selects none of them.
CatalogForms ==
    { Form((2 :> <<"1">>), <<>>),
      Form((1 :> <<"2">>) @@ (2 :> <<"1">>), <<>>),
      Form((5 :> <<"1">>), (1 :> TowFee)) }

NextCatalog ==
    \/ \E form \in CatalogForms : ProcessNewBooking(form)
    \/ \E terms \in CatalogTerms : UpdateService(terms)
    \/ \E s \in InvoicePaths : HandleInvoice(s)

SpecCatalog == Init /\ [][NextCatalog]_vars

\* ------------------------------------------------------------------------
\* Invoices on display: bookings of services and custom items whose names do
\* and do not contain "interim", rendered on the day of issue or later.
\* ------------------------------------------------------------------------
\* A custom item whose name contains the word in capitals.
InterimHose ==
    [name |-> <<"I", "N", "T", "E", "R", "I", "M", " ", "h", "o", "s", "e">>,
     qty |-> <<"1">>, price |-> <<"5", "0">>, vat |-> Absent]

\* A custom item whose name contains only part of the word.
WinterCheck ==
    [name |-> <<"W", "i", "n", "t", "e", "r", " ", "c", "h", "e", "c", "k">>,
     qty |-> <<"1">>, price |-> <<"5", "0">>, vat |-> Absent]

InvoiceForms ==
    { Form(<<>>, <<>>),
      Form((2 :> <<"1">>), <<>>),
      Form(<<<<"1">>>>, <<>>),
      Form((1 :> <<"1">>) @@ (2 :> <<"1">>), <<>>),
      Form((3 :> <<"1">>), (1 :> InterimHose)),
      Form((3 :> <<"1">>), (1 :> WinterCheck)) }

NextInvoice ==
    \/ \E form \in InvoiceForms : ProcessNewBooking(form)
    \/ \E s \in InvoicePaths : HandleInvoice(s)
    \/ Tick

SpecInvoice == Init /\ [][NextInvoice]_vars

\* ------------------------------------------------------------------------
\* Properties
\* ------------------------------------------------------------------------
RECURSIVE RowsEx(_, _, _)
RowsEx(table, booking_id, k) ==
    IF k = 0 THEN 0
    ELSE RowsEx(table, booking_id, k - 1)
           + (IF table[k].booking_id = booking_id
              THEN table[k].quantity * table[k].unit_price ELSE 0)

RECURSIVE RowsVat(_, _, _)
RowsVat(table, booking_id, k) ==
    IF k = 0 THEN 0
    ELSE RowsVat(table, booking_id, k - 1)
           + (IF table[k].booking_id = booking_id
              THEN (table[k].quantity * table[k].unit_price * table[k].vat_rate) \div Scale
              ELSE 0)

BookingTotalEx(d, booking_id) ==
    RowsEx(d.booking_items, booking_id, Len(d.booking_items))
      + RowsEx(d.misc_items, booking_id, Len(d.misc_items))

BookingTotalVat(d, booking_id) ==
    RowsVat(d.booking_items, booking_id, Len(d.booking_items))
      + RowsVat(d.misc_items, booking_id, Len(d.misc_items))

HasInvoice(d, booking_id) == \E inv \in RowSet(d.invoices) : inv.booking_id = booking_id

BookingIds(d) == {b.id : b \in RowSet(d.bookings)}

SequencePart(number) == SubSeq(number, 13, Len(number))

\* C1: every stored invoice's total_ex_vat is the sum of quantity*unit_price
\* over the booking_items and misc_items rows of its booking, its total_vat
\* the sum of quantity*unit_price*vat_rate over the same rows, and its
\* total_inc exactly total_ex_vat + total_vat.
C1_StoredTotals ==
    \A inv \in RowSet(db.invoices) :
        /\ inv.total_ex_vat = BookingTotalEx(db, inv.booking_id)
        /\ inv.total_vat = BookingTotalVat(db, inv.booking_id)
        /\ inv.total_inc = inv.total_ex_vat + inv.total_vat

\* A canceled invoice whose booking has a catalog row and a custom row, with VAT.
C1_Witness ==
    \E inv \in RowSet(db.invoices) :
        /\ inv.status = "canceled"
        /\ inv.total_vat > 0
        /\ \E r \in RowSet(db.booking_items) : r.booking_id = inv.booking_id
        /\ \E r \in RowSet(db.misc_items) : r.booking_id = inv.booking_id

\* C2: with submissions processed one at a time, no two invoice rows carry the
\* same invoice_number, and the sequence part of the k-th invoice is k: 1 for
\* the first invoice and (max existing invoice id) + 1 for each later one.
C2_UniqueNumbers ==
    /\ \A i, j \in 1..Len(db.invoices) :
          i # j => db.invoices[i].invoice_number # db.invoices[j].invoice_number
    /\ \A i \in 1..Len(db.invoices) :
          /\ db.invoices[i].id = i
          /\ DigitsValue(SequencePart(db.invoices[i].invoice_number)) = i

\* Two invoices, one of them canceled.
C2_Witness ==
    /\ Len(db.invoices) >= 2
    /\ \E inv \in RowSet(db.invoices) : inv.status = "canceled"

\* C3 (as stated): a submission that arrives while another one has computed
\* its invoice number and has not yet committed can go on with its own writes,
\* and so read the same next_id.
C3_AsClaimed ==
    \A a, b \in Handlers :
        (a # b /\ hs[a].pc \in {"invoice", "commit"} /\ hs[a].number # <<>>
           /\ hs[b].pc = "begin")
            => CanBeginWrite(b)

\* C3 (amended): interleaved submissions never both hold an uncommitted
\* transaction; the number a handler has computed differs from every committed
\* invoice's number; and no two committed invoices share a number.
C3_NumbersSerialized ==
    /\ \A a, b \in Handlers :
          (a # b /\ hs[a].pc \in {"number", "invoice", "commit"})
              => hs[b].pc \in {"idle", "begin"}
    /\ \A h \in Handlers : \A inv \in RowSet(db.invoices) :
          hs[h].number # <<>> => hs[h].number # inv.invoice_number
    /\ \A i, j \in 1..Len(db.invoices) :
          i # j => db.invoices[i].invoice_number # db.invoices[j].invoice_number

\* One handler has computed its number and not yet committed while a second
\* submission has been received and waits for its first INSERT.
C3_Witness ==
    \E a, b \in Handlers :
        /\ a # b
        /\ hs[a].pc = "invoice"
        /\ hs[a].number # <<>>
        /\ hs[b].pc = "begin"

\* C4: no committed invoice, booking_item or misc_item lacks its booking row,
\* every booking has its customer and vehicle and there is no customer or
\* vehicle without a booking, and a submission in which a write failed leaves
\* the store exactly as it was.
C4_NoOrphans ==
    /\ \A r \in RowSet(db.invoices) \cup RowSet(db.booking_items) \cup RowSet(db.misc_items) :
          r.booking_id \in BookingIds(db)
    /\ Len(db.customers) = Len(db.bookings)
    /\ Len(db.vehicles) = Len(db.bookings)

C4_AllOrNothing ==
    /\ []C4_NoOrphans
    /\ [][last'.failed # "no" => db' = db]_vars

\* A submission failed after its booking row was written, on a store that
\* already holds a booking with an invoice.
C4_Witness ==
    /\ last.op = "new"
    /\ last.failed = "after_booking"
    /\ Len(db.invoices) >= 1

\* C5: a booking has an invoice exactly when the total_ex accumulated over
\* its persisted line items is greater than 0 (and then exactly one), and a
\* booking without an invoice never gets one later.
C5_InvoiceIff ==
    \A b \in RowSet(db.bookings) :
        /\ HasInvoice(db, b.id) <=> BookingTotalEx(db, b.id) > 0
        /\ Cardinality({inv \in RowSet(db.invoices) : inv.booking_id = b.id}) <= 1

C5_InvoiceIffPositiveTotal ==
    /\ []C5_InvoiceIff
    /\ [][\A b \in RowSet(db.bookings) :
             ~HasInvoice(db, b.id) => ~HasInvoice(db', b.id)]_vars

\* An invoice-less booking, still invoice-less after a later submission that
\* did get an invoice and after being canceled.
C5_Witness ==
    \E b, c \in RowSet(db.bookings) :
        /\ b.id < c.id
        /\ ~HasInvoice(db, b.id)
        /\ b.status = "canceled"
        /\ HasInvoice(db, c.id)

\* C6: a submission that completes with at least one catalog quantity > 0 or
\* at least one custom item with a name, a positive quantity and a positive
\* price has created an invoice row for its booking.
C6_InvoiceForQualifying ==
    (last.op = "new" /\ last.status = 303 /\ (last.sel > 0 \/ last.cust > 0))
        => /\ HasInvoice(db, last.booking_id)
           /\ last.path = "/invoice/"

\* The last submission selected only the zero-VAT catalog service.
C6_Witness ==
    /\ last.op = "new"
    /\ last.status = 303
    /\ last.sel > 0
    /\ \E inv \in RowSet(db.invoices) :
          inv.booking_id = last.booking_id /\ inv.total_vat = 0

\* The store d with the status of booking_id's booking row and invoice rows
\* set to canceled and nothing else touched.
OnlyStatusesCanceled(d, e, booking_id) ==
    /\ e.customers = d.customers
    /\ e.vehicles = d.vehicles
    /\ e.services = d.services
    /\ e.booking_items = d.booking_items
    /\ e.misc_items = d.misc_items
    /\ Len(e.bookings) = Len(d.bookings)
    /\ Len(e.invoices) = Len(d.invoices)
    /\ \A i \in 1..Len(d.bookings) :
          e.bookings[i] = IF d.bookings[i].id = booking_id
                          THEN [d.bookings[i] EXCEPT !.status = "canceled"]
                          ELSE d.bookings[i]
    /\ \A i \in 1..Len(d.invoices) :
          e.invoices[i] = IF d.invoices[i].booking_id = booking_id
                          THEN [d.invoices[i] EXCEPT !.status = "canceled"]
                          ELSE d.invoices[i]

\* C7: a step that ends with a cancellation as the last request leaves the
\* store as it was except that the booking with the given id and its invoice
\* (if any) have status canceled: numbers, dates, totals, line items, other
\* bookings and invoices, customers and vehicles are unchanged and no row is
\* deleted.
C7_CancelFrame ==
    [][last'.op = "cancel" => OnlyStatusesCanceled(db, db', last'.booking_id)]_vars

\* The canceled booking has an invoice and line items, and another booking
\* with an unpaid invoice is still booked.
C7_Witness ==
    /\ last.op = "cancel"
    /\ last.status = 303
    /\ ~last.was_canceled
    /\ \E inv \in RowSet(db.invoices) :
          inv.booking_id = last.booking_id /\ inv.status = "canceled"
    /\ \E r \in RowSet(db.booking_items) : r.booking_id = last.booking_id
    /\ \E b \in RowSet(db.bookings) :
          /\ b.id # last.booking_id
          /\ b.status = "booked"
          /\ \E inv \in RowSet(db.invoices) :
                inv.booking_id = b.id /\ inv.status = "unpaid"

\* C8: a booking row is created with status booked, its status is always
\* booked or canceled, and once canceled it stays canceled.
C8_CanceledIsTerminal ==
    /\ [](\A b \in RowSet(db.bookings) : b.status \in {"booked", "canceled"})
    /\ [][/\ Len(db'.bookings) >= Len(db.bookings)
          /\ \A i \in 1..Len(db'.bookings) :
                IF i <= Len(db.bookings)
                THEN db.bookings[i].status = "canceled"
                        => db'.bookings[i].status = "canceled"
                ELSE db'.bookings[i].status = "booked"]_vars

\* A canceled booking is still canceled after a later submission and after
\* being canceled again.
C8_Witness ==
    /\ Len(db.bookings) >= 2
    /\ db.bookings[1].status = "canceled"
    /\ last.op = "cancel"
    /\ last.booking_id = 1
    /\ last.was_canceled

\* C9: canceling a booking that the previous request already canceled leaves
\* the store as it was after the first cancellation, with the booking and its
\* invoice canceled.
C9_CancelIdempotent ==
    [][(/\ last.op = "cancel" /\ last.status = 303
        /\ last'.op = "cancel" /\ last'.status = 303
        /\ last'.booking_id = last.booking_id)
          => /\ db' = db
             /\ \A b \in RowSet(db'.bookings) :
                   b.id = last.booking_id => b.status = "canceled"
             /\ \A inv \in RowSet(db'.invoices) :
                   inv.booking_id = last.booking_id => inv.status = "canceled"]_vars

\* The last request canceled an already canceled booking that has an invoice.
C9_Witness ==
    /\ last.op = "cancel"
    /\ last.was_canceled
    /\ HasInvoice(db, last.booking_id)

\* The text before the sequence part: INV, eight digits and a hyphen.
NumberHead(number, dt) ==
    /\ Len(number) > 12
    /\ SubSeq(number, 1, 3) = <<"I", "N", "V">>
    /\ SubSeq(number, 4, 11) = StrfYmd(dt)
    /\ AllDigits(SubSeq(number, 4, 11))
    /\ number[12] = "-"
    /\ AllDigits(SequencePart(number))

\* C10 (as stated): every generated number is INV, eight digits, a hyphen and
\* exactly three digits.
C10_AsClaimed ==
    fmt.number # <<>> =>
        /\ NumberHead(fmt.number, DateOf(fmt.day))
        /\ Len(SequencePart(fmt.number)) = 3

\* C10 (amended): every generated number is INV, eight digits, a hyphen and
\* next_id in decimal, zero-padded to at least three digits: exactly three
\* digits while next_id <= 999 and as many digits as next_id has from 1000 on.
C10_AtLeastThreeDigits ==
    fmt.number # <<>> =>
        /\ NumberHead(fmt.number, DateOf(fmt.day))
        /\ DigitsValue(SequencePart(fmt.number)) = fmt.last_id + 1
        /\ Len(SequencePart(fmt.number)) >= 3
        /\ (Len(SequencePart(fmt.number)) = 3 <=> fmt.last_id + 1 <= 999)
        /\ (fmt.last_id + 1 >= 1000 =>
               SequencePart(fmt.number)[1] # "0")

\* The number of the thousandth invoice has been generated.
C10_Witness ==
    /\ fmt.last_id = 999
    /\ fmt.number # <<>>
    /\ Len(SequencePart(fmt.number)) = 4

\* The catalog row of a service.
ServiceRow(d, svc_id) == CHOOSE s \in RowSet(d.services) : s.id = svc_id

SumLines(rows, field) ==
    LET F[k \in 0..Len(rows)] == IF k = 0 THEN 0 ELSE F[k - 1] + rows[k][field]
    IN  F[Len(rows)]

\* C11: a booking_item takes its unit_price and vat_rate from the catalog row
\* as it is when the booking is submitted, and no later step, a change of the
\* catalog row's unit_price or vat_rate included, changes an existing
\* booking_item's unit_price or vat_rate or an existing invoice's stored
\* totals; a page rendered afterwards shows the stored prices and totals.
C11_CatalogDecoupled ==
    [][/\ Len(db'.booking_items) >= Len(db.booking_items)
       /\ Len(db'.invoices) >= Len(db.invoices)
       /\ \A i \in 1..Len(db.booking_items) :
              /\ db'.booking_items[i].unit_price = db.booking_items[i].unit_price
              /\ db'.booking_items[i].vat_rate = db.booking_items[i].vat_rate
       /\ \A i \in 1..Len(db.invoices) :
              /\ db'.invoices[i].total_ex_vat = db.invoices[i].total_ex_vat
              /\ db'.invoices[i].total_vat = db.invoices[i].total_vat
              /\ db'.invoices[i].total_inc = db.invoices[i].total_inc
       /\ \A i \in (Len(db.booking_items) + 1)..Len(db'.booking_items) :
              /\ db'.booking_items[i].unit_price
                    = ServiceRow(db, db'.booking_items[i].service_id).unit_price
              /\ db'.booking_items[i].vat_rate
                    = ServiceRow(db, db'.booking_items[i].service_id).vat_rate
       /\ (last'.op = "invoice" /\ last'.status = 200) =>
              /\ SumLines(last'.items_rows, "line_total_ex") = last'.total_ex
              /\ SumLines(last'.items_rows, "line_vat") = last'.total_vat
              /\ \A inv \in RowSet(db'.invoices) :
                     inv.id = last'.invoice_id => last'.total_inc = inv.total_inc
      ]_vars

\* An invoice rendered after the catalog terms of one of its services changed.
C11_Witness ==
    /\ last.op = "invoice"
    /\ last.status = 200
    /\ \E inv \in RowSet(db.invoices) :
           /\ inv.id = last.invoice_id
           /\ \E bi \in RowSet(db.booking_items) :
                  /\ bi.booking_id = inv.booking_id
                  /\ <<bi.unit_price, bi.vat_rate>>
                        # <<ServiceRow(db, bi.service_id).unit_price,
                            ServiceRow(db, bi.service_id).vat_rate>>
    /\ \E bi \in RowSet(db.booking_items) :
           bi.unit_price # SeedServices[bi.service_id].unit_price

\* The step commits a booking submission.
Submitted == Len(db'.bookings) > Len(db.bookings)

\* The rows of a table the step added.
Added(table) == SubSeq(db'[table], Len(db[table]) + 1, Len(db'[table]))

\* C12: a submission that commits is answered by a 303 redirect, to
\* /invoice/{id} with the id of the invoice the submission created when it
\* created one and to / otherwise; in both cases its customer, vehicle and
\* booking rows are committed.
C12_Redirect ==
    [][/\ Submitted => (last'.op = "new" /\ last'.status = 303)
       /\ (last'.op = "new" /\ last'.status = 303 /\ last' # last) =>
              /\ Submitted
              /\ Len(Added("customers")) = 1
              /\ Len(Added("vehicles")) = 1
              /\ Len(Added("bookings")) = 1
              /\ Added("bookings")[1].id = last'.booking_id
              /\ Added("bookings")[1].customer_id = Added("customers")[1].id
              /\ Added("bookings")[1].vehicle_id = Added("vehicles")[1].id
              /\ Added("vehicles")[1].customer_id = Added("customers")[1].id
              /\ IF Len(db'.invoices) > Len(db.invoices)
                 THEN /\ last'.path = "/invoice/"
                      /\ Len(Added("invoices")) = 1
                      /\ last'.loc_id = Added("invoices")[1].id
                      /\ Added("invoices")[1].booking_id = last'.booking_id
                 ELSE /\ last'.path = "/"
                      /\ last'.loc_id = 0
      ]_vars

\* A redirect to an invoice whose id differs from its booking's id, after a
\* booking that was committed without an invoice.
C12_Witness ==
    /\ last.op = "new"
    /\ last.status = 303
    /\ last.path = "/invoice/"
    /\ last.loc_id # last.booking_id
    /\ \E b \in RowSet(db.bookings) : ~HasInvoice(db, b.id)
    /\ Len(db.customers) = Len(db.bookings)
    /\ Len(db.vehicles) = Len(db.bookings)

\* C13: a submission that commits adds exactly one customer row, one vehicle
\* row, one booking row, one booking_item row per catalog service submitted
\* with a quantity > 0, one misc_item row per custom slot with a name, a
\* quantity > 0 and a price > 0, and at most one invoice row, whose totals
\* count the persisted rows only; no other step adds a row.
C13_RowsPerSubmission ==
    [][IF Submitted
       THEN /\ Len(Added("customers")) = 1
            /\ Len(Added("vehicles")) = 1
            /\ Len(Added("bookings")) = 1
            /\ Len(Added("booking_items")) = last'.sel
            /\ Len(Added("misc_items")) = last'.cust
            /\ Len(Added("invoices")) \in {0, 1}
            /\ \A i \in 1..Len(Added("booking_items")) :
                   /\ Added("booking_items")[i].booking_id = last'.booking_id
                   /\ Added("booking_items")[i].quantity > 0
                   /\ \A j \in 1..Len(Added("booking_items")) :
                          Added("booking_items")[i].service_id
                              = Added("booking_items")[j].service_id => i = j
            /\ \A i \in 1..Len(Added("misc_items")) :
                   /\ Added("misc_items")[i].booking_id = last'.booking_id
                   /\ Added("misc_items")[i].name # <<>>
                   /\ Added("misc_items")[i].quantity > 0
                   /\ Added("misc_items")[i].unit_price > 0
            /\ \A i \in 1..Len(Added("invoices")) :
                   /\ Added("invoices")[i].booking_id = last'.booking_id
                   /\ Added("invoices")[i].total_ex_vat
                         = BookingTotalEx(db', last'.booking_id)
                   /\ Added("invoices")[i].total_vat
                         = BookingTotalVat(db', last'.booking_id)
       ELSE \A table \in {"customers", "vehicles", "bookings", "booking_items",
                          "misc_items", "invoices"} :
                Len(db'[table]) = Len(db[table])
      ]_vars

\* A submission with two selected services and one valid custom item has
\* been committed after one that persisted no item.
C13_Witness ==
    /\ last.op = "new"
    /\ last.status = 303
    /\ last.sel = 2
    /\ last.cust = 1
    /\ Len(db.bookings) = 2
    /\ Len(db.booking_items) = 2
    /\ Len(db.misc_items) = 1
    /\ Len(db.invoices) = 1

\* C15: every booking's status is booked or canceled, every invoice's status
\* is unpaid or canceled, and an invoice is canceled exactly when its booking
\* is canceled.
C15_StatusConsistent ==
    /\ \A b \in RowSet(db.bookings) : b.status \in {"booked", "canceled"}
    /\ \A inv \in RowSet(db.invoices) :
           /\ inv.status \in {"unpaid", "canceled"}
           /\ \E b \in RowSet(db.bookings) : b.id = inv.booking_id
           /\ \A b \in RowSet(db.bookings) :
                  b.id = inv.booking_id =>
                      (inv.status = "canceled" <=> b.status = "canceled")

\* A canceled booking with its canceled invoice next to a booked one with its
\* unpaid invoice.
C15_Witness ==
    /\ \E b \in RowSet(db.bookings), inv \in RowSet(db.invoices) :
           b.id = inv.booking_id /\ b.status = "canceled" /\ inv.status = "canceled"
    /\ \E b \in RowSet(db.bookings), inv \in RowSet(db.invoices) :
           b.id = inv.booking_id /\ b.status = "booked" /\ inv.status = "unpaid"

\* The number of the day in the proleptic Gregorian calendar (1 is 0001-01-01).
Ordinal(dt) ==
    LET y == dt.y - 1
        F[m \in 1..12] == IF m = 1 THEN 0 ELSE F[m - 1] + DaysInMonth(dt.y, m - 1)
    IN  365 * y + (y \div 4) - (y \div 100) + (y \div 400) + F[dt.m] + dt.d

\* The names of the lines of a booking's invoice: the names of its selected
\* services and of its custom items.
LineNames(d, booking_id) ==
    {ServiceRow(d, bi.service_id).name :
        bi \in {r \in RowSet(d.booking_items) : r.booking_id = booking_id}}
      \cup {mi.name : mi \in {r \in RowSet(d.misc_items) : r.booking_id = booking_id}}

====
